---- MODULE Spec2Model ----
(***************************************************************************)
(* Model of package date (aodin/date): the Date value type of date.go and  *)
(* the Range interval algebra of range.go.                                 *)
(*                                                                         *)
(* A Date wraps a time.Time at midnight UTC.  It is modelled as the number *)
(* of days since the zero time (0001-01-01 UTC), so the zero Date, which   *)
(* the package uses as "absent", is day 0 and Before/After are < and >.    *)
(* A Range is the struct {Start, End, isEmpty}.                            *)
(***************************************************************************)
EXTENDS Integers, FiniteSets, Sequences, TLC

\* Latest day the model constructs (days after the zero time).
MaxDay == 3

\* Every Date value of the model; day 0 is the zero Date.
Dates == 0..MaxDay

\* a, b, day: the operands of the algebra; op, out, ok: the last operation of
\* the algebra and what it returned.  dest: the Range a decode writes into.
\* call: the last call of Days, Value, MarshalJSON, json.Unmarshal or Scan,
\* with its argument and what it returned.
VARIABLES a, b, day, op, out, ok, dest, call

vars == <<a, b, day, op, out, ok, dest, call>>

----------------------------------------------------------------------------
(* date.go *)

\* time.Time.IsZero, promoted through the embedded field of Date.
IsZero(date) == date = 0

Before(date, other) == date < other

After(date, other) == date > other

----------------------------------------------------------------------------
(* range.go: constructors *)

Empty == [Start |-> 0, End |-> 0, isEmpty |-> TRUE]

Forever == [Start |-> 0, End |-> 0, isEmpty |-> FALSE]

NewRange(start, end) == [Start |-> start, End |-> end, isEmpty |-> FALSE]

SingleDay(date) == NewRange(date, date)

StartBoundedRange(start) == [Start |-> start, End |-> 0, isEmpty |-> FALSE]

----------------------------------------------------------------------------
(* range.go: predicates *)

RangeIsZero(term) == IsZero(term.Start) /\ IsZero(term.End)

IsEmpty(term) == term.isEmpty /\ RangeIsZero(term)

Equals(term, other) == term = other

\* Faulty variant: only a range without any bound is let through.
Error_ZeroCheck(term) ==
    IF RangeIsZero(term) THEN FALSE
    ELSE After(term.Start, term.End)

\* TRUE when Error() returns a non-nil error.
Error(term) ==
    IF IsZero(term.Start) \/ IsZero(term.End) THEN FALSE
    ELSE After(term.Start, term.End)

\* Faulty variant: the End bound taken as exclusive.
Within_ExclusiveEnd(date, term) ==
    IF IsEmpty(term) THEN FALSE
    ELSE IF ~IsZero(term.Start) /\ Before(date, term.Start) THEN FALSE
    ELSE IF ~IsZero(term.End) /\ ~Before(date, term.End) THEN FALSE
    ELSE TRUE

\* Faulty variant: the check for an empty term left out.
Within_IgnoresEmpty(date, term) ==
    IF ~IsZero(term.Start) /\ Before(date, term.Start) THEN FALSE
    ELSE IF ~IsZero(term.End) /\ After(date, term.End) THEN FALSE
    ELSE TRUE

Within(date, term) ==
    IF IsEmpty(term) THEN FALSE
    ELSE IF ~IsZero(term.Start) /\ Before(date, term.Start) THEN FALSE
    ELSE IF ~IsZero(term.End) /\ After(date, term.End) THEN FALSE
    ELSE TRUE

----------------------------------------------------------------------------
(* range.go: the algebra *)

\* The Start (and below the End) that Intersection settles on; -1 stands
\* for the branch that returns Empty().
IntersectStart(term, other) ==
    IF Within(other.Start, term) THEN other.Start
    ELSE IF Within(term.Start, other) THEN term.Start
    ELSE IF IsZero(term.Start) /\ IsZero(other.Start) THEN 0
    ELSE -1

IntersectEnd(term, other) ==
    IF Within(other.End, term) THEN other.End
    ELSE IF Within(term.End, other) THEN term.End
    ELSE IF IsZero(term.End) /\ IsZero(other.End) THEN 0
    ELSE -1

\* Faulty variant: IsZero in place of IsEmpty in the guard.
Intersection_ZeroIsEmpty(term, other) ==
    IF RangeIsZero(term) \/ RangeIsZero(other) THEN Empty
    ELSE IF IntersectStart(term, other) = -1 THEN Empty
    ELSE IF IntersectEnd(term, other) = -1 THEN Empty
    ELSE [Start |-> IntersectStart(term, other),
          End |-> IntersectEnd(term, other),
          isEmpty |-> FALSE]

Intersection(term, other) ==
    IF IsEmpty(term) \/ IsEmpty(other) THEN Empty
    ELSE IF IntersectStart(term, other) = -1 THEN Empty
    ELSE IF IntersectEnd(term, other) = -1 THEN Empty
    ELSE [Start |-> IntersectStart(term, other),
          End |-> IntersectEnd(term, other),
          isEmpty |-> FALSE]

Contains(term, other) == Equals(Intersection(term, other), other)

DoesNotContain(term, other) == ~Contains(term, other)

\* Faulty variant: IsZero in place of IsEmpty.
Overlaps_ZeroCheck(term, other) == ~RangeIsZero(Intersection(term, other))

Overlaps(term, other) == ~IsEmpty(Intersection(term, other))

\* Faulty variant: the unbounded branches left out.
Union_NoUnbounded(term, other) ==
    IF IsEmpty(term) /\ IsEmpty(other) THEN Empty
    ELSE [Start |->
              IF Before(term.Start, other.Start) THEN term.Start
              ELSE other.Start,
          End |->
              IF After(term.End, other.End) THEN term.End
              ELSE other.End,
          isEmpty |-> FALSE]

\* Faulty variant: After in place of Before when choosing the Start.
Union_LaterStart(term, other) ==
    IF IsEmpty(term) /\ IsEmpty(other) THEN Empty
    ELSE [Start |->
              IF ~IsEmpty(term) /\ IsZero(term.Start) THEN 0
              ELSE IF ~IsEmpty(other) /\ IsZero(other.Start) THEN 0
              ELSE IF After(term.Start, other.Start) THEN term.Start
              ELSE other.Start,
          End |->
              IF ~IsEmpty(term) /\ IsZero(term.End) THEN 0
              ELSE IF ~IsEmpty(other) /\ IsZero(other.End) THEN 0
              ELSE IF After(term.End, other.End) THEN term.End
              ELSE other.End,
          isEmpty |-> FALSE]

Union(term, other) ==
    IF IsEmpty(term) /\ IsEmpty(other) THEN Empty
    ELSE [Start |->
              IF ~IsEmpty(term) /\ IsZero(term.Start) THEN 0
              ELSE IF ~IsEmpty(other) /\ IsZero(other.Start) THEN 0
              ELSE IF Before(term.Start, other.Start) THEN term.Start
              ELSE other.Start,
          End |->
              IF ~IsEmpty(term) /\ IsZero(term.End) THEN 0
              ELSE IF ~IsEmpty(other) /\ IsZero(other.End) THEN 0
              ELSE IF After(term.End, other.End) THEN term.End
              ELSE other.End,
          isEmpty |-> FALSE]

----------------------------------------------------------------------------
(* range.go: Days *)

\* The largest time.Duration (2^63 - 1 nanoseconds) in whole hours.
MaxDurationHours == 2562047

\* int(x) of a quotient: division truncating toward zero.
TruncDiv(x, y) == IF x >= 0 THEN x \div y ELSE -((-x) \div y)

\* time.Time.Sub in whole hours: the difference of two midnights, or the
\* largest (smallest) Duration when the difference does not fit in one.
Sub(t, u) ==
    IF (t - u) * 24 > MaxDurationHours THEN MaxDurationHours
    ELSE IF (t - u) * 24 < -MaxDurationHours THEN -MaxDurationHours
    ELSE (t - u) * 24

Days(term) ==
    IF IsZero(term.Start) \/ IsZero(term.End) THEN 0
    ELSE TruncDiv(Sub(term.End, term.Start), 24) + 1

----------------------------------------------------------------------------
(* date.go: text.  A text ([]byte or string) is a sequence of tokens: the  *)
(* one-byte tokens of OneByte, and words and ISO 8601 dates, which are     *)
(* several bytes long.                                                     *)

\* The ISO 8601 texts of the days 0, 1, 2, ... in order.
JanuaryText ==
    <<"0001-01-01", "0001-01-02", "0001-01-03", "0001-01-04", "0001-01-05",
      "0001-01-06", "0001-01-07", "0001-01-08", "0001-01-09", "0001-01-10">>

\* The days that have a text in the model: the day before the zero time and
\* the first days of January of year 1.
Calendar == -1..(Len(JanuaryText) - 1)

\* Date.format: time.Time.Format(ISO8601Date).
format(date) == IF date = -1 THEN "0000-12-31" ELSE JanuaryText[date + 1]

AddDate(date, years, months, days) == date + days

\* Faulty variant: the day offset applied with the wrong sign.
AddDays_WrongSign(date, days) == AddDate(date, 0, 0, -days)

AddDays(date, days) == AddDate(date, 0, 0, days)

\* ParseUsingLayout(ISO8601Date, value): the Date, or an error and Date{}.
Parse(value) ==
    IF Len(value) = 1 /\ \E date \in Calendar : format(date) = value[1]
    THEN [err |-> FALSE, date |-> CHOOSE date \in Calendar : format(date) = value[1]]
    ELSE [err |-> TRUE, date |-> 0]

\* Faulty variant: the zero Date rendered as a date, not as null.
DateMarshalJSON_NoNull(date) == <<"\"", format(date), "\"">>

\* Date.MarshalJSON
DateMarshalJSON(date) ==
    IF IsZero(date) THEN <<"null">>
    ELSE <<"\"", format(date), "\"">>

\* Date.UnmarshalJSON into date: the new Date, or an error and date as it was.
DateUnmarshalJSON(date, text) ==
    IF text = <<"null">> THEN [err |-> FALSE, date |-> 0]
    ELSE IF ~(Len(text) = 3 /\ text[1] = "\"" /\ text[3] = "\"")
         THEN [err |-> TRUE, date |-> date]
    ELSE IF Parse(<<text[2]>>).err THEN [err |-> TRUE, date |-> date]
    ELSE [err |-> FALSE, date |-> Parse(<<text[2]>>).date]

\* Date.Scan: the type assertion value.(time.Time) panics on any other value.
DateScan(date, value) ==
    IF value.kind = "time" THEN [err |-> "nil", date |-> value.time]
    ELSE [err |-> "panic", date |-> date]

----------------------------------------------------------------------------
(* range.go: JSON and the database text *)

\* The tokens that are one byte long.
OneByte == {"[", "]", "(", ")", ",", "'", "x"}

\* strings.ToLower, token by token.
ToLower(value) ==
    [i \in 1..Len(value) |->
        CASE value[i] \in {"EMPTY", "Empty"} -> "empty"
          [] value[i] \in {"INFINITY", "Infinity"} -> "infinity"
          [] OTHER -> value[i]]

\* value[1:]: a token of several bytes that loses its first byte is the
\* token "#", which is no word and no date.
DropFirstByte(value) ==
    IF Head(value) \in OneByte THEN Tail(value)
    ELSE <<"#">> \o Tail(value)

\* value[:len(value)-1]
DropLastByte(value) ==
    IF value[Len(value)] \in OneByte THEN SubSeq(value, 1, Len(value) - 1)
    ELSE SubSeq(value, 1, Len(value) - 1) \o <<"#">>

isEmptyRange(value) == ToLower(value) = <<"empty">>

\* Index of the first comma of value, 0 if it has none.
FirstComma(value) ==
    IF \E i \in 1..Len(value) : value[i] = ","
    THEN CHOOSE i \in 1..Len(value) :
             /\ value[i] = ","
             /\ \A j \in 1..(i - 1) : value[j] # ","
    ELSE 0

\* strings.SplitN(value, ",", 2) and the trimming of the two brackets.
splitRange(value) ==
    LET i == FirstComma(value)
        p0 == SubSeq(value, 1, i - 1)
        p1 == SubSeq(value, i + 1, Len(value))
    IN  IF i = 0 \/ p0 = <<>> \/ p1 = <<>>
        THEN [err |-> TRUE, start |-> <<>>, end |-> <<>>]
        ELSE [err |-> FALSE,
              start |-> ToLower(DropFirstByte(p0)),
              end |-> ToLower(DropLastByte(p1))]

\* The first half of the parsing in Scan (range.go lines 110-118).
ScanStart(term, start) ==
    IF start = <<"infinity">> \/ start = <<>> THEN [err |-> "nil", term |-> term]
    ELSE IF Parse(start).err THEN [err |-> "error", term |-> term]
    ELSE [err |-> "nil", term |-> [term EXCEPT !.Start = Parse(start).date]]

\* The second half (range.go lines 120-132).
ScanEnd(term, end) ==
    IF end = <<"infinity">> \/ end = <<>> THEN [err |-> "nil", term |-> term]
    ELSE IF Parse(end).err THEN [err |-> "error", term |-> term]
    ELSE [err |-> "nil", term |-> [term EXCEPT !.End = AddDays(Parse(end).date, -1)]]

\* Range.Scan into term: the error returned and term as the call leaves it.
Scan(term, value) ==
    IF value.kind = "nil" THEN [err |-> "nil", term |-> [term EXCEPT !.isEmpty = TRUE]]
    ELSE IF value.kind # "bytes" THEN [err |-> "error", term |-> term]
    ELSE IF isEmptyRange(value.bytes)
         THEN [err |-> "nil", term |-> [term EXCEPT !.isEmpty = TRUE]]
    ELSE LET p == splitRange(value.bytes)
             first == ScanStart(term, p.start)
         IN  IF p.err THEN [err |-> "error", term |-> term]
             ELSE IF first.err # "nil" THEN first
             ELSE ScanEnd(first.term, p.end)

\* Range.Value
Value(term) ==
    IF RangeIsZero(term) THEN <<"[", ",", "]">>
    ELSE IF IsZero(term.Start) THEN <<"[", ",", "'", format(term.End), "'", "]">>
    ELSE IF IsZero(term.End) THEN <<"[", "'", format(term.Start), "'", ",", "]">>
    ELSE <<"[", "'", format(term.Start), "'", ",", "'", format(term.End), "'", "]">>

\* Range.MarshalJSON
MarshalJSON(term) ==
    IF IsEmpty(term) THEN <<"null">>
    ELSE <<"{", "\"start\":">> \o DateMarshalJSON(term.Start)
             \o <<",", "\"end\":">> \o DateMarshalJSON(term.End) \o <<"}">>

\* The number of tokens of the JSON value that starts at text[i].
ValueLen(text, i) == IF i <= Len(text) /\ text[i] = "\"" THEN 3 ELSE 1

\* json.Unmarshal(text, &term): Range has no UnmarshalJSON, so null leaves
\* term alone and an object sets the exported fields Start and End through
\* Date.UnmarshalJSON, in the order of the text; isEmpty is never written.
Unmarshal(term, text) ==
    IF text = <<"null">> THEN [err |-> FALSE, term |-> term]
    ELSE LET n1 == ValueLen(text, 3)
             n2 == ValueLen(text, n1 + 5)
             start == DateUnmarshalJSON(term.Start, SubSeq(text, 3, n1 + 2))
             end == DateUnmarshalJSON(term.End, SubSeq(text, n1 + 5, n1 + n2 + 4))
         IN  IF ~(/\ Len(text) = n1 + n2 + 5
                  /\ text[1] = "{" /\ text[2] = "\"start\":"
                  /\ text[n1 + 3] = "," /\ text[n1 + 4] = "\"end\":"
                  /\ text[Len(text)] = "}")
             THEN [err |-> TRUE, term |-> term]
             ELSE IF start.err THEN [err |-> TRUE, term |-> term]
             ELSE IF end.err
                  THEN [err |-> TRUE, term |-> [term EXCEPT !.Start = start.date]]
             ELSE [err |-> FALSE,
                   term |-> [term EXCEPT !.Start = start.date, !.End = end.date]]

----------------------------------------------------------------------------
(* The caller: two Range values a and b and a Date day are built with the  *)
(* constructors, an operation is applied with a as receiver and b (or day) *)
(* as argument, and a returned Range may be used as the next operand.      *)

Slots == {"a", "b"}

\* The operand named slot becomes term; the other operand is kept.
Operand(slot, term) ==
    IF slot = "a" THEN a' = term /\ b' = b
                  ELSE b' = term /\ a' = a

\* A zero-value Range (var r Range).
ZeroRange == [Start |-> 0, End |-> 0, isEmpty |-> FALSE]

Init ==
    /\ a = Forever
    /\ b = Forever
    /\ day = 0
    /\ op = "none"
    /\ out = Forever
    /\ ok = FALSE
    /\ dest = ZeroRange
    /\ call = [op |-> "none"]

DoEmpty ==
    /\ \E slot \in Slots : Operand(slot, Empty)
    /\ op' = "none"
    /\ UNCHANGED <<day, out, ok, dest, call>>

DoForever ==
    /\ \E slot \in Slots : Operand(slot, Forever)
    /\ op' = "none"
    /\ UNCHANGED <<day, out, ok, dest, call>>

DoNewRange ==
    /\ \E slot \in Slots, start, end \in Dates : Operand(slot, NewRange(start, end))
    /\ op' = "none"
    /\ UNCHANGED <<day, out, ok, dest, call>>

DoSingleDay ==
    /\ \E slot \in Slots, date \in Dates : Operand(slot, SingleDay(date))
    /\ op' = "none"
    /\ UNCHANGED <<day, out, ok, dest, call>>

DoStartBoundedRange ==
    /\ \E slot \in Slots, start \in Dates : Operand(slot, StartBoundedRange(start))
    /\ op' = "none"
    /\ UNCHANGED <<day, out, ok, dest, call>>

\* day := a Date of the caller's choice.
DoNewDate ==
    /\ \E date \in Dates : day' = date
    /\ op' = "none"
    /\ UNCHANGED <<a, b, out, ok, dest, call>>

DoIntersection ==
    /\ out' = Intersection(a, b)
    /\ op' = "Intersection"
    /\ UNCHANGED <<a, b, day, ok, dest, call>>

DoUnion ==
    /\ out' = Union(a, b)
    /\ op' = "Union"
    /\ UNCHANGED <<a, b, day, ok, dest, call>>

DoContains ==
    /\ ok' = Contains(a, b)
    /\ op' = "Contains"
    /\ UNCHANGED <<a, b, day, out, dest, call>>

DoDoesNotContain ==
    /\ ok' = DoesNotContain(a, b)
    /\ op' = "DoesNotContain"
    /\ UNCHANGED <<a, b, day, out, dest, call>>

DoOverlaps ==
    /\ ok' = Overlaps(a, b)
    /\ op' = "Overlaps"
    /\ UNCHANGED <<a, b, day, out, dest, call>>

DoError ==
    /\ ok' = Error(a)
    /\ op' = "Error"
    /\ UNCHANGED <<a, b, day, out, dest, call>>

DoWithin ==
    /\ ok' = Within(day, a)
    /\ op' = "Within"
    /\ UNCHANGED <<a, b, day, out, dest, call>>

\* The Range an operation returned becomes an operand of the next one.
DoReuse ==
    /\ op \in {"Intersection", "Union"}
    /\ \E slot \in Slots : Operand(slot, out)
    /\ op' = "none"
    /\ UNCHANGED <<day, out, ok, dest, call>>

Next ==
    \/ DoEmpty
    \/ DoForever
    \/ DoNewRange
    \/ DoSingleDay
    \/ DoStartBoundedRange
    \/ DoNewDate
    \/ DoIntersection
    \/ DoUnion
    \/ DoContains
    \/ DoDoesNotContain
    \/ DoOverlaps
    \/ DoError
    \/ DoWithin
    \/ DoReuse

Spec == Init /\ [][Next]_vars

----------------------------------------------------------------------------
(* Days over long ranges: the operands are built from dates up to three    *)
(* centuries apart.                                                        *)

LongDates == Dates \cup {MaxDurationHours \div 24 + date : date \in Dates}

DoNewRangeLong ==
    /\ \E slot \in Slots, start, end \in LongDates : Operand(slot, NewRange(start, end))
    /\ op' = "none"
    /\ UNCHANGED <<day, out, ok, dest, call>>

DoDays ==
    /\ call' = [op |-> "Days", n |-> Days(a)]
    /\ UNCHANGED <<a, b, day, op, out, ok, dest>>

NextDays ==
    \/ DoEmpty
    \/ DoForever
    \/ DoNewRangeLong
    \/ DoSingleDay
    \/ DoDays

SpecDays == Init /\ [][NextDays]_vars

----------------------------------------------------------------------------
(* Encoding and decoding: dest is a Range the caller owns, filled by a     *)
(* constructor or by Scan.                                                 *)

\* A value handed to Scan by database/sql: NULL, a byte buffer, a string
\* (a value of another type) or a time.Time.
Nil == [kind |-> "nil", bytes |-> <<>>, time |-> 0]

Bytes(value) == [kind |-> "bytes", bytes |-> value, time |-> 0]

\* The text of one side of a range literal.
Fields ==
    {<<>>, <<"infinity">>, <<"INFINITY">>, <<"x">>}
        \cup {<<format(date)>> : date \in Dates}

\* The byte buffers the model hands to Range.Scan: range literals with any
\* two sides, with and without their brackets, texts without a comma, and
\* the token empty in three letter cases.
Payloads ==
    {<<"[">> \o start \o <<",">> \o end \o <<close>> :
        close \in {"]", ")"}, start \in Fields, end \in Fields}
    \cup {start \o <<",">> \o end : start \in Fields, end \in {<<>>, <<format(1)>>}}
    \cup {<<"(">> \o start \o <<")">> : start \in Fields}
    \cup {<<"empty">>, <<"EMPTY">>, <<"Empty">>, <<>>}

ScanValues ==
    {Nil, [kind |-> "string", bytes |-> <<>>, time |-> 0]}
        \cup {Bytes(value) : value \in Payloads}

\* The values the model hands to Date.Scan.
DateScanValues ==
    {Nil, [kind |-> "string", bytes |-> <<>>, time |-> 0], Bytes(<<format(1)>>)}
        \cup {[kind |-> "time", bytes |-> <<>>, time |-> date] : date \in Dates}

\* A panic that nothing recovers ends the program.
Running == ~(call.op \in {"Scan", "DateScan"} /\ call.err = "panic")

\* dest := Empty(), Forever() or NewRange(start, end); var dest Range is the
\* same value as Forever().
DoNewDest ==
    /\ Running
    /\ \E term \in {Empty, ZeroRange} \cup {NewRange(start, end) : start, end \in Dates} :
           dest' = term
    /\ call' = [op |-> "none"]
    /\ UNCHANGED <<a, b, day, op, out, ok>>

DoScan ==
    /\ Running
    /\ \E value \in ScanValues :
           LET r == Scan(dest, value)
           IN  /\ dest' = r.term
               /\ call' = [op |-> "Scan", value |-> value, before |-> dest,
                           err |-> r.err]
    /\ UNCHANGED <<a, b, day, op, out, ok>>

\* var date Date = day; date.Scan(value): the call record keeps the Date as
\* the call leaves it.
DoDateScan ==
    /\ Running
    /\ \E value \in DateScanValues :
           call' = [op |-> "DateScan", value |-> value, before |-> day,
                    date |-> DateScan(day, value).date,
                    err |-> DateScan(day, value).err]
    /\ UNCHANGED <<a, b, day, op, out, ok, dest>>

DoValue ==
    /\ Running
    /\ call' = [op |-> "Value", text |-> Value(dest)]
    /\ UNCHANGED <<a, b, day, op, out, ok, dest>>

DoMarshalJSON ==
    /\ Running
    /\ call' = [op |-> "MarshalJSON", text |-> MarshalJSON(dest)]
    /\ UNCHANGED <<a, b, day, op, out, ok, dest>>

\* The text MarshalJSON just returned is unmarshaled into a zero-value Range.
DoUnmarshal ==
    /\ Running
    /\ call.op = "MarshalJSON"
    /\ call' = [op |-> "Unmarshal", text |-> call.text,
                err |-> Unmarshal(ZeroRange, call.text).err,
                term |-> Unmarshal(ZeroRange, call.text).term]
    /\ UNCHANGED <<a, b, day, op, out, ok, dest>>

NextCodec ==
    \/ DoNewDest
    \/ DoScan
    \/ DoDateScan
    \/ DoValue
    \/ DoMarshalJSON
    \/ DoUnmarshal

SpecCodec == Init /\ [][NextCodec]_vars

----------------------------------------------------------------------------
(* What the claims expect, written from their wording and independent of   *)
(* the operators above.                                                    *)

\* An absent bound is the zero Date.
Absent(date) == date = 0

\* Day d lies in the interval r denotes: an absent Start is infinitely
\* early, an absent End infinitely late, both bounds inclusive.
HasDay(r, d) ==
    /\ ~(r.isEmpty /\ Absent(r.Start) /\ Absent(r.End))
    /\ (Absent(r.Start) \/ d >= r.Start)
    /\ (Absent(r.End) \/ d <= r.End)

ShareDay(r, s) == \E d \in Dates : HasDay(r, d) /\ HasDay(s, d)

\* The later of two starts; an absent start loses to a concrete one.
LaterStart(x, y) ==
    IF Absent(x) THEN y ELSE IF Absent(y) THEN x ELSE IF x >= y THEN x ELSE y

\* The earlier of two ends; an absent end loses to a concrete one.
EarlierEnd(x, y) ==
    IF Absent(x) THEN y ELSE IF Absent(y) THEN x ELSE IF x <= y THEN x ELSE y

\* The earlier of two starts, absent if either is absent.
EarlierStart(x, y) ==
    IF Absent(x) \/ Absent(y) THEN 0 ELSE IF x <= y THEN x ELSE y

\* The later of two ends, absent if either is absent.
LaterEnd(x, y) ==
    IF Absent(x) \/ Absent(y) THEN 0 ELSE IF x >= y THEN x ELSE y

CommonDays(r, s) ==
    IF IsEmpty(r) \/ IsEmpty(s) \/ ~ShareDay(r, s) THEN Empty
    ELSE [Start |-> LaterStart(r.Start, s.Start),
          End |-> EarlierEnd(r.End, s.End),
          isEmpty |-> FALSE]

\* s lies entirely within r, both non-empty.
LiesWithin(s, r) ==
    /\ (Absent(r.Start) \/ (~Absent(s.Start) /\ s.Start >= r.Start))
    /\ (Absent(r.End) \/ (~Absent(s.End) /\ s.End <= r.End))

Bounded(r) == ~Absent(r.Start) /\ ~Absent(r.End)

----------------------------------------------------------------------------
(* Claims *)

\* C1: the empty range is the identity of Union: Empty().Union(r) == r and
\* r.Union(Empty()) == r for every range r.
C1_EmptyIsUnionIdentity ==
    op = "Union" =>
        /\ (a = Empty => out = b)
        /\ (b = Empty => out = a)

\* C2: Union and Intersection are commutative on the (Start, End, isEmpty)
\* triple: a.Union(b) == b.Union(a), a.Intersection(b) == b.Intersection(a).
C2_Commutative ==
    /\ (op = "Union" => out = Union(b, a))
    /\ (op = "Intersection" => out = Intersection(b, a))

\* C3: for non-empty a and b with Error() nil, a.Intersection(b) is the
\* range of their common days (later start, earlier end), and Empty() when
\* they share no day or an operand is empty.
C3_IntersectionIsCommonDays ==
    (op = "Intersection" /\ ~Error(a) /\ ~Error(b)) => out = CommonDays(a, b)

\* C4: for non-empty a and b with Error() nil, a.Contains(b) iff b lies
\* entirely within a; an empty a contains only an empty b; DoesNotContain
\* is the negation of Contains.
C4_ContainsIsLiesWithin ==
    /\ (op = "Contains" /\ ~Error(a) /\ ~Error(b) /\ ~IsEmpty(a) /\ ~IsEmpty(b))
           => (ok <=> LiesWithin(b, a))
    /\ (op = "Contains" /\ IsEmpty(a)) => (ok <=> IsEmpty(b))
    /\ (op = "DoesNotContain") => (ok <=> ~Contains(a, b))
C7_Absorbing ==
    /\ (op = "Intersection" /\ (a = Empty \/ b = Empty)) => out = Empty
    /\ (op = "Union" /\ (a = Forever \/ b = Forever)) => out = Forever

C7_Witness ==
    /\ op = "Union"
    /\ Bounded(a)
    /\ b = Forever
    /\ out = Forever

\* C8: for a and b with Error() nil, a.Overlaps(b) iff some date d has
\* d.Within(a) and d.Within(b).
C8_OverlapsIsCommonDay ==
    (op = "Overlaps" /\ ~Error(a) /\ ~Error(b)) =>
        (ok <=> \E d \in Dates : Within(d, a) /\ Within(d, b))

\* Adjacent ranges that share no day do not overlap.
C8_Witness ==
    /\ op = "Overlaps"
    /\ Bounded(a) /\ Bounded(b)
    /\ ~Error(a) /\ ~Error(b)
    /\ b.Start = a.End + 1
    /\ ~ok

\* C9: for non-empty a and b, a.Union(b) is the non-empty convex hull: its
\* Start is absent if either Start is absent, else the earlier Start; its
\* End is absent if either End is absent, else the later End.
C9_UnionIsConvexHull ==
    (op = "Union" /\ ~IsEmpty(a) /\ ~IsEmpty(b)) =>
        out = [Start |-> EarlierStart(a.Start, b.Start),
               End |-> LaterEnd(a.End, b.End),
               isEmpty |-> FALSE]

\* Disjoint operands with a gap between them: the gap is bridged.
C9_Witness ==
    /\ op = "Union"
    /\ Bounded(a) /\ Bounded(b)
    /\ ~Error(a) /\ ~Error(b)
    /\ b.End + 1 < a.Start
    /\ out = NewRange(b.Start, a.End)

\* C10: d.Within(r) is false when r is empty; otherwise it is true iff
\* (r.Start is absent or d is not before r.Start) and (r.End is absent or d
\* is not after r.End).
C10_WithinFollowsShape ==
    op = "Within" => (ok <=> HasDay(a, day))

\* The last day of a bounded range is within it.
C10_Witness ==
    /\ op = "Within"
    /\ Bounded(a)
    /\ a.Start < a.End
    /\ day = a.End
    /\ ok
\* C11: Days() is 0 for the empty range and for a range with an absent
\* Start or End; for a bounded range with Start not after End it is the
\* inclusive day count End - Start + 1, at least 1, and 1 for SingleDay(d).
C11_DaysIsInclusiveCount ==
    call.op = "Days" =>
        /\ (IsEmpty(a) \/ Absent(a.Start) \/ Absent(a.End)) => call.n = 0
        /\ (Bounded(a) /\ a.Start <= a.End) =>
               /\ call.n = a.End - a.Start + 1
               /\ call.n >= 1
        /\ (Bounded(a) /\ a.Start = a.End) => call.n = 1
\* Both bounds present and Start strictly after End.
StartAfterEnd(r) == Bounded(r) /\ r.Start > r.End

\* C12 as stated: for all ranges a and b, also with Start after End, the
\* range a.Intersection(b) or a.Union(b) returns has Error() == nil, where
\* Error() is non-nil exactly for both bounds present and Start after End.
C12_ResultsAlwaysConsistent ==
    /\ (op \in {"Intersection", "Union"}) => ~StartAfterEnd(out)
    /\ (op = "Error") => (ok <=> StartAfterEnd(a))

\* C12 as amended: for all ranges a and b whose Error() is nil, the range
\* a.Intersection(b) or a.Union(b) returns has Error() == nil; Error() is
\* non-nil exactly for both bounds present and Start strictly after End.
C12_ResultsConsistentWhenValid ==
    /\ (op \in {"Intersection", "Union"} /\ ~StartAfterEnd(a) /\ ~StartAfterEnd(b))
           => ~StartAfterEnd(out)
    /\ (op = "Error") => (ok <=> StartAfterEnd(a))

\* A union of two different valid bounded ranges, itself bounded.
C12_Witness ==
    /\ op = "Union"
    /\ Bounded(a) /\ Bounded(b)
    /\ ~StartAfterEnd(a) /\ ~StartAfterEnd(b)
    /\ a.End < b.Start
    /\ Bounded(out)
    /\ ~StartAfterEnd(out)

\* The JSON of one bound: null when absent, else the quoted ISO 8601 date.
BoundJSON(date) ==
    IF Absent(date) THEN <<"null">> ELSE <<"\"", format(date), "\"">>

\* C13: the empty range marshals to null and every other range to the
\* object {"start":..., "end":...} with null for an absent bound; the
\* marshaled text of any range r, unmarshaled into a zero-value Range,
\* reproduces r's Start and End.
C13_JSONRoundTrip ==
    /\ (call.op = "MarshalJSON") =>
           call.text = IF dest = Empty THEN <<"null">>
                       ELSE <<"{", "\"start\":">> \o BoundJSON(dest.Start)
                                \o <<",", "\"end\":">> \o BoundJSON(dest.End)
                                \o <<"}">>
    /\ (call.op = "Unmarshal") =>
           /\ ~call.err
           /\ call.term.Start = dest.Start
           /\ call.term.End = dest.End

\* A right-unbounded range has gone through MarshalJSON and back.
C13_Witness ==
    /\ call.op = "Unmarshal"
    /\ ~Absent(dest.Start)
    /\ Absent(dest.End)
    /\ call.term.Start = dest.Start
    /\ call.term.End = 0

\* C14: Value() renders the empty range as the token empty, the fully
\* unbounded range as [,], a right-unbounded range as ['start',], a
\* left-unbounded one as [,'end'] and a bounded one as ['start','end'].
C14_ValueByShape ==
    (call.op = "Value") =>
        call.text =
            IF dest = Empty THEN <<"empty">>
            ELSE IF Absent(dest.Start) /\ Absent(dest.End) THEN <<"[", ",", "]">>
            ELSE IF Absent(dest.End)
                 THEN <<"[", "'", format(dest.Start), "'", ",", "]">>
            ELSE IF Absent(dest.Start)
                 THEN <<"[", ",", "'", format(dest.End), "'", "]">>
            ELSE <<"[", "'", format(dest.Start), "'", ",",
                   "'", format(dest.End), "'", "]">>

\* The side of a literal that leaves its bound absent: empty or infinity.
NoBound(text) == text = <<>> \/ ToLower(text) = <<"infinity">>

IsDateText(text) == Len(text) = 1 /\ \E date \in Calendar : format(date) = text[1]

DayOf(text) == CHOOSE date \in Calendar : format(date) = text[1]

\* The text of literal before its first comma without the opening bracket.
StartText(literal) ==
    LET i == CHOOSE k \in 1..Len(literal) :
                 literal[k] = "," /\ \A j \in 1..(k - 1) : literal[j] # ","
    IN  SubSeq(literal, 2, i - 1)

\* The text of literal after its first comma without the closing bracket.
EndText(literal) ==
    LET i == CHOOSE k \in 1..Len(literal) :
                 literal[k] = "," /\ \A j \in 1..(k - 1) : literal[j] # ","
    IN  SubSeq(literal, i + 1, Len(literal) - 1)

\* C15: a successful Scan of a range literal into a zero-value destination
\* splits the payload at its first comma; an empty or infinity side leaves
\* the bound absent, a start date is stored as parsed, an end date as the
\* parsed date minus one day, and the result is not empty.
C15_ScanDecodesLiteral ==
    (/\ call.op = "Scan"
     /\ call.err = "nil"
     /\ call.before = ZeroRange
     /\ call.value.kind = "bytes"
     /\ ToLower(call.value.bytes) # <<"empty">>) =>
        /\ \E k \in 1..Len(call.value.bytes) : call.value.bytes[k] = ","
        /\ IF NoBound(StartText(call.value.bytes)) THEN Absent(dest.Start)
           ELSE /\ IsDateText(StartText(call.value.bytes))
                /\ dest.Start = DayOf(StartText(call.value.bytes))
        /\ IF NoBound(EndText(call.value.bytes)) THEN Absent(dest.End)
           ELSE /\ IsDateText(EndText(call.value.bytes))
                /\ dest.End = DayOf(EndText(call.value.bytes)) - 1
        /\ ~IsEmpty(dest)

\* A literal with two dates has been decoded into a zero-value Range.
C15_Witness ==
    /\ call.op = "Scan"
    /\ call.err = "nil"
    /\ call.before = ZeroRange
    /\ call.value.kind = "bytes"
    /\ Bounded(dest)
    /\ dest.Start < dest.End

\* C16: after a successful Scan of NULL or of the token empty in any letter
\* case the destination is the empty range, whatever it held before; after
\* any successful Scan it holds the range the last payload encodes, only.
C16_ScanOverwrites ==
    (call.op = "Scan" /\ call.err = "nil") =>
        /\ (call.value.kind = "nil" \/ ToLower(call.value.bytes) = <<"empty">>) =>
               (IsEmpty(dest) /\ dest = Empty)
        /\ dest = Scan(ZeroRange, call.value).term

\* C17: when Scan returns an error the destination's Start, End and
\* isEmpty are what they were before the call.
C17_FailedScanLeavesDest ==
    (call.op = "Scan" /\ call.err = "error") => dest = call.before

\* C18: for every value, NULL and values of the wrong type included,
\* Range.Scan and Date.Scan return nil or an error; neither panics.
C18_ScanNeverPanics ==
    (call.op \in {"Scan", "DateScan"}) => call.err \in {"nil", "error"}

====
